---- MODULE Spec2Model ----
(***************************************************************************)
(* mirrorbox.py: input mirroring from one source window to target windows. *)
(*                                                                         *)
(* Three threads share the module globals: the keyboard listener thread    *)
(* (on_press / on_release), the mouse listener thread (on_click) and the   *)
(* flush loop (_process_input_queue).  The desktop (foreground window,     *)
(* windows closing, the clock) is the environment.  The clock counts whole *)
(* seconds; the sleeps of 10 ms and 0.5 s are shorter than one tick.       *)
(***************************************************************************)
EXTENDS Integers, Sequences, FiniteSets, TLC

\* ------------------------------------------------------------------ bounds
MaxTime == 3
MaxEvents == 2

\* --------------------------------------------------------- program constants
_capture_debounce_delay == 1
VK_RETURN == 13
VK_A == 65
WM_MOUSEMOVE == 512
WM_LBUTTONDOWN == 513
WM_LBUTTONUP == 514
WM_RBUTTONDOWN == 516
WM_RBUTTONUP == 517
KEYEVENTF_KEYUP == 2

\* ------------------------------------------------------------------- state
VARIABLES
    now,               \* the clock read by time.time(), in seconds
    fg,                \* GetForegroundWindow()
    open,              \* the visible top-level windows
    SOURCE_TITLE,      \* the configured source pattern
    srcSize,           \* the source window's size: "normal", or zero wide
                       \* ("w0") or zero high ("h0")
    target_windows,    \* the global target list
    _input_queue,      \* pending key events (kind, vk)
    _last_input_time,
    _queue_lock,       \* TRUE while a thread is inside "with _queue_lock"
    kb,                \* keyboard listener thread: pc and locals
    ms,                \* mouse listener thread: pc and locals
    fl,                \* flush loop thread: pc and locals
    posted,            \* messages posted so far by the running mouse callback
    flog,              \* what the running flush has done for its current
                       \* target so far, in order
    attached,          \* targets whose thread the source thread's input is
                       \* attached to (AttachThreadInput ... True)
    injected,          \* synthesized key events (kind, vk) in the system's
                       \* input stream, not yet seen by the keyboard listener
    hist,              \* history: any = a key event was accepted before;
                       \* q / b = the queue / the batch holds events of two
                       \* bursts more than the threshold apart
    nEvents            \* input events delivered to the listeners so far

vars == <<now, fg, open, SOURCE_TITLE, srcSize, target_windows, _input_queue,
          _last_input_time, _queue_lock, kb, ms, fl, posted, flog, attached,
          injected, hist, nEvents>>

env == <<now, fg, open>>

\* What no step of the program or of the desktop changes.
conf == <<SOURCE_TITLE, srcSize>>

\* ------------------------------------------------------------- the desktop
\* Window handles of the modelled desktop and their (fixed) titles.
Hwnds == 1 .. 4
Closable == {2}

Title(h) ==
    CASE h = 1 -> <<"R", "g", "1", "(", "x", ")">>
      [] h = 2 -> <<"R", "G", "2">>
      [] h = 3 -> <<"r", "g", "3">>
      [] OTHER -> <<"e", "d", "i", "t">>

\* GetWindowRect: (left, top, right, bottom) in screen coordinates.
GetWindowRect(h) ==
    CASE h = 1 -> <<100, 50, IF srcSize = "w0" THEN 100 ELSE 916,
                             IF srcSize = "h0" THEN 50 ELSE 689>>
      [] h = 2 -> <<1000, 0, 1416, 339>>
      [] h = 3 -> <<200, 400, 1016, 739>>
      [] OTHER -> <<0, 0, 1920, 1080>>

\* GetClientRect: (0, 0, width, height).
GetClientRect(h) ==
    CASE h = 1 -> <<0, 0, IF srcSize = "w0" THEN 0 ELSE 800,
                          IF srcSize = "h0" THEN 0 ELSE 600>>
      [] h = 2 -> <<0, 0, 400, 300>>
      [] h = 3 -> <<0, 0, 800, 300>>
      [] OTHER -> <<0, 0, 1920, 1080>>

\* Screen position of the client area's top-left corner (frame 8, caption 31).
ClientOrigin(h) == <<GetWindowRect(h)[1] + 8, GetWindowRect(h)[2] + 31>>

ScreenToClient(h, pt) == <<pt[1] - ClientOrigin(h)[1], pt[2] - ClientOrigin(h)[2]>>

\* ------------------------------------------------------------ title matching
Lower(c) == CASE c = "R" -> "r" [] c = "G" -> "g" [] OTHER -> c

LowerSeq(s) == [i \in DOMAIN s |-> Lower(s[i])]

Contains(hay, needle) ==
    \E k \in 0 .. (Len(hay) - Len(needle)) :
        \A i \in 1 .. Len(needle) : hay[k + i] = needle[i]

\* re.compile(p, re.IGNORECASE): a pattern with an unclosed "(" raises re.error
\* (modelled as ok = FALSE); the other patterns used here are literals.
re_compile(p) == [ok |-> \A i \in DOMAIN p : p[i] # "(", pattern |-> p]

\* pat.search(title) for a compiled literal pattern with re.IGNORECASE.
re_search(pat, title) == Contains(LowerSeq(title), LowerSeq(pat.pattern))

SourceTitles == { <<"r", "g", "1">>, <<"r", "g", "1", "(">> }

TARGET_TITLES ==
    << <<"r", "g", "2">>, <<"r", "g", "3">>, <<"4", " ", "-", " ", "t", "l">>,
       <<"m", "s">>, <<"r", "l">>, <<"s", "p">> >>

TARGET_PATTERNS ==
    LET c == [i \in DOMAIN TARGET_TITLES |-> re_compile(TARGET_TITLES[i])]
    IN  SelectSeq(c, LAMBDA r : r.ok)

\* compile_source_pattern(): SOURCE_RE, with ok = FALSE standing for None.
SOURCE_RE == re_compile(SOURCE_TITLE)

\* The title test of is_source_active() under source pattern p, tabulated
\* per pattern and window.
SourceTest(p, h) ==
    IF ~re_compile(p).ok
    THEN Contains(LowerSeq(Title(h)), LowerSeq(p))
    ELSE re_search(re_compile(p), Title(h))

SourceTestTable == [p \in SourceTitles |-> [h \in Hwnds |-> SourceTest(p, h)]]

SourceRuleMatches(h) == SourceTestTable[SOURCE_TITLE][h]

\* is_source_active(): the foreground title against the source rule.
is_source_active == SourceRuleMatches(fg)

\* The loop of enum_win over TARGET_PATTERNS, tabulated per window.
TargetTest(h) ==
    \E i \in DOMAIN TARGET_PATTERNS : re_search(TARGET_PATTERNS[i], Title(h))

TargetTestTable == [h \in Hwnds |-> TargetTest(h)]

\* enum_win(hwnd): whether the callback appends hwnd to target_windows.
enum_win(h) ==
    /\ h \in open
    /\ Title(h) # <<>>
    /\ TargetTestTable[h]

\* win32gui.EnumWindows(enum_win, None) on the list as it stands: the
\* handles enum_win appends, in enumeration (handle) order.
RECURSIVE EnumFrom(_, _)
EnumFrom(h, list) ==
    IF h > Cardinality(Hwnds) THEN list
    ELSE EnumFrom(h + 1, IF enum_win(h) THEN Append(list, h) ELSE list)

EnumWindows(list) == EnumFrom(1, list)

\* ------------------------------------------------------------ key resolution
\* Keys the user can press: the characters "a" and "eacute" (a character no
\* key of the layout produces), Key.enter and Key.f1.
Keys == {"a", "eacute", "enter", "f1"}
Chars == {"a", "eacute"}
\* The keys whose release the user is seen to make.
ReleasedKeys == {"a", "f1"}
NoVk == 0

\* win32api.VkKeyScan(char): the virtual-key code in the low byte, or -1
\* when the layout has no key for the character.
VkKeyScan(char) == IF char = "a" THEN VK_A ELSE -1

\* vk_from_key(key): VkKeyScan(char) & 0xFF for a character, the
\* SPECIAL_KEY_MAP entry for a named key, None (NoVk) otherwise.
vk_from_key(key) ==
    CASE key \in Chars -> VkKeyScan(key) % 256
      [] key = "enter" -> VK_RETURN
      [] OTHER -> NoVk

\* ----------------------------------------------------------- mouse geometry
Points == { <<500, 350>> }
\* The clicks the user makes: (button, pressed).
Clicks == { <<"left", TRUE>>, <<"right", FALSE>>, <<"middle", TRUE>> }

\* int(a / b) of Python for b > 0: true division, truncated toward zero.
TruncDiv(a, b) == IF a >= 0 THEN a \div b ELSE -((-a) \div b)

Width(r) == r[3] - r[1]
Height(r) == r[4] - r[2]

\* Mutant: the handlers divide by a size of at least 1.
SourceSize_Clamped(kind, src) ==
    LET w == IF kind = "click" THEN Width(GetWindowRect(src)) ELSE GetClientRect(src)[3]
        h == IF kind = "click" THEN Height(GetWindowRect(src)) ELSE GetClientRect(src)[4]
    IN  << IF w = 0 THEN 1 ELSE w, IF h = 0 THEN 1 ELSE h >>

\* The divisors of a handler's scaling: src_width, src_height of on_click,
\* src_client_rect[2], src_client_rect[3] of on_move.
SourceSize(kind, src) ==
    IF kind = "click"
    THEN << Width(GetWindowRect(src)), Height(GetWindowRect(src)) >>
    ELSE << GetClientRect(src)[3], GetClientRect(src)[4] >>

\* on_move: tgt = int(rel * target client size / source client size)
MovePoint(rel, src, hwnd) ==
    << TruncDiv(rel[1] * GetClientRect(hwnd)[3], SourceSize("move", src)[1]),
       TruncDiv(rel[2] * GetClientRect(hwnd)[4], SourceSize("move", src)[2]) >>

\* on_click: tgt = int(tgt_rect origin + rel * target size / source size)
ClickPoint(rel, src, hwnd) ==
    LET sw == SourceSize("click", src)[1]
        sh == SourceSize("click", src)[2]
        tr == GetWindowRect(hwnd)
    IN  << TruncDiv(tr[1] * sw + rel[1] * Width(tr), sw),
           TruncDiv(tr[2] * sh + rel[2] * Height(tr), sh) >>

\* The message on_click picks for a button (0: neither left nor right).
ClickMsg(button, pressed) ==
    CASE button = "left" -> IF pressed THEN WM_LBUTTONDOWN ELSE WM_LBUTTONUP
      [] button = "right" -> IF pressed THEN WM_RBUTTONDOWN ELSE WM_RBUTTONUP
      [] OTHER -> 0

\* send_mouse_event(x, y, event_flag): one PostMessage per window of
\* list(target_windows); a closed window's ScreenToClient raises and is
\* skipped.  "for" remembers the loop target the point was computed for.
send_mouse_event(pt, event_flag, for) ==
    LET live == SelectSeq(target_windows, LAMBDA h : h \in open)
    IN  [k \in 1 .. Len(live) |->
            [hwnd |-> live[k], msg |-> event_flag, for |-> for,
             pt |-> << ScreenToClient(live[k], pt)[1] % 65536,
                       ScreenToClient(live[k], pt)[2] % 65536 >>]]

KbIdle == [pc |-> "idle", ev |-> <<>>, t |-> 0, gap |-> "", gate |-> FALSE,
           syn |-> FALSE]
MsIdle == [pc |-> "idle", kind |-> "", msg |-> 0, rel |-> <<0, 0>>, src |-> 0,
           i |-> 0, gate |-> FALSE]
FlIdle == [pc |-> "poll", batch |-> <<>>, source_hwnd |-> 0, tl |-> <<>>,
           ti |-> 0]

Init ==
    /\ now = 0
    /\ fg \in {1, 4}
    /\ open = Hwnds
    /\ SOURCE_TITLE \in SourceTitles
    /\ srcSize = "normal"
    /\ attached = {}
    /\ injected = <<>>
    /\ target_windows = <<>>
    /\ _input_queue = <<>>
    /\ _last_input_time = now
    /\ _queue_lock = FALSE
    /\ kb = KbIdle
    /\ ms = MsIdle
    /\ fl = FlIdle
    /\ posted = <<>>
    /\ flog = <<>>
    /\ hist = [any |-> FALSE, q |-> FALSE, b |-> FALSE]
    /\ nEvents = 0

\* ------------------------------------------------- keyboard listener thread
\* The gap between an accepted event and the previous accepted one, as a
\* class: no previous event, less than / equal to / more than the threshold.
GapClass(prev, t) ==
    IF ~hist.any THEN "first"
    ELSE IF t - prev < _capture_debounce_delay THEN "lt"
    ELSE IF t - prev = _capture_debounce_delay THEN "eq" ELSE "gt"

\* Mutant: the callback forgets the is_source_active() gate.
KeyAccepted_Ungated(key) == vk_from_key(key) # NoVk

\* What the callback does with a key: go on to queue it, or return.
KeyAccepted(key) == is_source_active /\ vk_from_key(key) # NoVk

\* Input events the listeners can still be handed: those the user has yet
\* to make, less the synthesized ones already on their way.
Room == MaxEvents - nEvents - Len(injected)

\* on_press / on_release up to and including the call of time.time(); syn
\* remembers that the event was synthesized by the flush loop.
KeyCallback(kind, key, syn) ==
    /\ kb.pc = "idle"
    /\ nEvents < MaxEvents
    /\ nEvents' = nEvents + 1
    /\ IF KeyAccepted(key)
       THEN /\ kb' = [pc |-> "store", ev |-> <<kind, vk_from_key(key)>>,
                      t |-> now, gap |-> GapClass(_last_input_time, now),
                      gate |-> is_source_active, syn |-> syn]
            /\ hist' = [hist EXCEPT !.any = TRUE]
       ELSE UNCHANGED <<kb, hist>>
    /\ UNCHANGED <<env, conf, attached, target_windows, _input_queue,
                   _last_input_time, _queue_lock, ms, fl, posted, flog>>

\* The user presses / releases a key.
on_press(key) ==
    /\ Room > 0
    /\ KeyCallback("keydown", key, FALSE)
    /\ UNCHANGED injected

on_release(key) ==
    /\ Room > 0
    /\ KeyCallback("keyup", key, FALSE)
    /\ UNCHANGED injected

\* The key object pynput builds for a hooked event with virtual key vk.
KeyOfVk(vk) ==
    CASE vk = VK_A -> "a"
      [] vk = VK_RETURN -> "enter"
      [] OTHER -> "unknown"

\* The listener's hook sees a key event that keybd_event put into the input
\* stream, and calls on_press / on_release for it like for any other.
hook_injected ==
    /\ injected # <<>>
    /\ KeyCallback(Head(injected)[1], KeyOfVk(Head(injected)[2]), TRUE)
    /\ injected' = Tail(injected)

\* _last_input_time = <the value time.time() returned>   (outside the lock)
kb_store_time ==
    /\ kb.pc = "store"
    /\ _last_input_time' = kb.t
    /\ kb' = [kb EXCEPT !.pc = "append"]
    /\ UNCHANGED <<env, conf, attached, injected, target_windows, _input_queue,
                   _queue_lock, ms, fl, posted, flog, hist, nEvents>>

\* with _queue_lock: _input_queue.append((kind, vk)); return
kb_append ==
    /\ kb.pc = "append"
    /\ ~_queue_lock
    /\ _input_queue' = Append(_input_queue, kb.ev)
    /\ hist' = [hist EXCEPT !.q = @ \/ (kb.gap = "gt" /\ _input_queue # <<>>)]
    /\ kb' = KbIdle
    /\ UNCHANGED <<env, conf, attached, injected, target_windows, _last_input_time,
                   _queue_lock, ms, fl, posted, flog, nEvents>>

\* ------------------------------------------------------------- flush loop
\* Mutant: the elapsed seconds are compared with the delay in milliseconds.
FlushDue_Millis ==
    /\ _input_queue # <<>>
    /\ now - _last_input_time >= 1000 * _capture_debounce_delay

\* The test at the top of the loop, made inside the lock.
FlushDue ==
    /\ _input_queue # <<>>
    /\ now - _last_input_time >= _capture_debounce_delay

\* sleep 10 ms, take the lock, test the queue and the elapsed time
\* ("continue" releases the lock and polls again).
fl_poll ==
    /\ fl.pc = "poll"
    /\ ~_queue_lock
    /\ FlushDue
    /\ _queue_lock' = TRUE
    /\ fl' = [fl EXCEPT !.pc = "drain"]
    /\ UNCHANGED <<env, conf, attached, injected, target_windows, _input_queue,
                   _last_input_time, kb, ms, posted, flog, hist, nEvents>>

\* Mutant: the drain copies the queue and forgets to clear it.
fl_drain_NoClear ==
    /\ fl.pc = "drain"
    /\ fl' = [fl EXCEPT !.pc = "recheck", !.batch = _input_queue]
    /\ _queue_lock' = FALSE
    /\ hist' = [hist EXCEPT !.q = FALSE, !.b = hist.q]
    /\ UNCHANGED <<env, conf, attached, injected, target_windows, _input_queue,
                   _last_input_time, kb, ms, posted, flog, nEvents>>

\* batch = list(_input_queue); _input_queue.clear(); leave the with block
fl_drain ==
    /\ fl.pc = "drain"
    /\ fl' = [fl EXCEPT !.pc = "recheck", !.batch = _input_queue]
    /\ _input_queue' = <<>>
    /\ _queue_lock' = FALSE
    /\ hist' = [hist EXCEPT !.q = FALSE, !.b = hist.q]
    /\ UNCHANGED <<env, conf, attached, injected, target_windows, _last_input_time,
                   kb, ms, posted, flog, nEvents>>

\* The re-check of the flush under source pattern p, tabulated: TRUE when
\* the flush is to be abandoned.
RecheckTest(p, h) == re_compile(p).ok /\ ~re_search(re_compile(p), Title(h))

RecheckTable == [p \in SourceTitles |-> [h \in Hwnds |-> RecheckTest(p, h)]]

RecheckAborts(h) == RecheckTable[SOURCE_TITLE][h]

\* source_hwnd = GetForegroundWindow(); the re-check; refresh_target_windows()
\* up to target_windows.clear()
fl_recheck ==
    /\ fl.pc = "recheck"
    /\ IF RecheckAborts(fg)
       THEN /\ fl' = FlIdle
            /\ hist' = [hist EXCEPT !.b = FALSE]
            /\ UNCHANGED target_windows
       ELSE /\ fl' = [fl EXCEPT !.pc = "enum", !.source_hwnd = fg]
            /\ target_windows' = <<>>
            /\ UNCHANGED hist
    /\ UNCHANGED <<env, conf, attached, injected, _input_queue, _last_input_time,
                   _queue_lock, kb, ms, posted, flog, nEvents>>

\* The rest of refresh_target_windows(), EnumWindows(enum_win), and the
\* snapshot list(target_windows) the loop over the targets iterates.
fl_enum ==
    /\ fl.pc = "enum"
    /\ target_windows' = EnumWindows(target_windows)
    /\ fl' = [fl EXCEPT !.pc = "switch", !.tl = target_windows', !.ti = 1]
    /\ UNCHANGED <<env, conf, attached, injected, _input_queue, _last_input_time,
                   _queue_lock, kb, ms, posted, flog, hist, nEvents>>

\* SwitchToThisWindow(hwnd, True): the request may or may not take effect,
\* and has none on a closed window.
SwitchOutcomes(h) == IF h \in open THEN {fg, h} ELSE {fg}

\* The window the flush switches to once every target is processed.
RestoreTarget == fl.source_hwnd

\* Head of "for target_hwnd in list(target_windows)": switch to the target
\* and sleep 0.5 s (the clock may tick meanwhile); after the last target,
\* restore the source and go back to polling.
fl_switch ==
    /\ fl.pc = "switch"
    /\ IF fl.ti <= Len(fl.tl)
       THEN /\ fg' \in SwitchOutcomes(fl.tl[fl.ti])
            /\ flog' = << <<"switch", fl.tl[fl.ti]>> >>
            /\ fl' = [fl EXCEPT !.pc = "replay"]
            /\ UNCHANGED hist
       ELSE /\ fg' \in SwitchOutcomes(RestoreTarget)
            /\ flog' = <<>>
            /\ fl' = FlIdle
            /\ hist' = [hist EXCEPT !.b = FALSE]
    /\ UNCHANGED <<now, open, conf, attached, injected, target_windows, _input_queue,
                   _last_input_time, _queue_lock, kb, ms, posted, nEvents>>

\* keybd_event(vk_code, scan, flags, 0): the flags word for an event type.
KeyFlags(event_type) == IF event_type = "keydown" THEN 0 ELSE KEYEVENTF_KEYUP

\* What one iteration of the event loop adds to the log: the injected key,
\* or the failure the inner except swallowed.
InjectEntry(t, e, raised) ==
    IF raised THEN <<"failed", t, e[1], e[2]>>
    ELSE <<"key", t, KeyFlags(e[1]), e[2]>>

\* Mutant: the batch is replayed last event first.
ReplayBatch_Reversed(t, batch, fails) ==
    [k \in 1 .. Len(batch) |->
        InjectEntry(t, batch[Len(batch) + 1 - k], (Len(batch) + 1 - k) \in fails)]

\* "for event_type, vk_code in batch" for target t; the events whose index
\* is in fails raise inside the inner try.
ReplayBatch(t, batch, fails) ==
    [k \in 1 .. Len(batch) |-> InjectEntry(t, batch[k], k \in fails)]

\* The events of a replay that can raise inside the inner try: on a closed
\* window the thread lookup, on an open one MapVirtualKey / keybd_event.
MayFail(t, batch) == DOMAIN batch

\* The attachments in place after the batch was replayed to target t.  Each
\* event attaches (when the two threads differ), injects and detaches; an
\* event that raises after its attach skips the detach of line 304, and the
\* next successful event of the target detaches again.
Attachments(att, src, t, batch, fails) ==
    IF t \notin open \/ src = t \/ batch = <<>> THEN att
    ELSE IF Len(batch) \in fails THEN att \cup {t} ELSE att \ {t}

\* The key events keybd_event put into the input stream during a replay.
Synthesized(batch, fails) ==
    LET RECURSIVE from(_)
        from(k) == IF k > Len(batch) THEN <<>>
                   ELSE (IF k \in fails THEN <<>> ELSE <<batch[k]>>) \o from(k + 1)
    IN  from(1)

\* After the sleep: the whole batch is replayed to the current target, then
\* the loop moves to the next target.
fl_replay ==
    /\ fl.pc = "replay"
    /\ \E fails \in SUBSET MayFail(fl.tl[fl.ti], fl.batch) :
           /\ flog' = flog \o ReplayBatch(fl.tl[fl.ti], fl.batch, fails)
           /\ attached' = Attachments(attached, fl.source_hwnd, fl.tl[fl.ti],
                                      fl.batch, fails)
           /\ injected' = injected \o
                  SubSeq(Synthesized(fl.batch, fails), 1,
                         IF Room < Len(Synthesized(fl.batch, fails))
                         THEN Room ELSE Len(Synthesized(fl.batch, fails)))
    /\ fl' = [fl EXCEPT !.pc = "switch", !.ti = fl.ti + 1]
    /\ UNCHANGED <<env, conf, target_windows, _input_queue,
                   _last_input_time, _queue_lock, kb, ms, posted, hist, nEvents>>

\* ---------------------------------------------------- mouse listener thread
\* main() registers mouse.Listener(on_click=on_click) only: a mouse move
\* reaches the listener, which has no handler for it.
listener_move ==
    /\ ms.pc = "idle"
    /\ Room > 0
    /\ nEvents' = nEvents + 1
    /\ UNCHANGED <<env, conf, attached, injected, target_windows, _input_queue,
                   _last_input_time, _queue_lock, kb, ms, fl, posted, flog, hist>>

\* A mouse handler from its entry to target_windows.clear() in
\* refresh_target_windows(); msg = 0 is on_click's "else: return".
MouseCallback(kind, pt, msg) ==
    /\ ms.pc = "idle"
    /\ Room > 0
    /\ nEvents' = nEvents + 1
    /\ IF is_source_active /\ msg # 0
       THEN /\ ms' = [pc |-> "enum", kind |-> kind, msg |-> msg,
                      rel |-> <<pt[1] - GetWindowRect(fg)[1],
                                pt[2] - GetWindowRect(fg)[2]>>,
                      src |-> fg, i |-> 0, gate |-> is_source_active]
            /\ target_windows' = <<>>
       ELSE UNCHANGED <<ms, target_windows>>
    /\ UNCHANGED <<env, conf, attached, injected, _input_queue, _last_input_time,
                   _queue_lock, kb, fl, posted, flog, hist>>

on_click(pt, button, pressed) == MouseCallback("click", pt, ClickMsg(button, pressed))

on_move(pt) == MouseCallback("move", pt, WM_MOUSEMOVE)

\* EnumWindows(enum_win) of the handler's refresh_target_windows().
ms_enum ==
    /\ ms.pc = "enum"
    /\ target_windows' = EnumWindows(target_windows)
    /\ ms' = [ms EXCEPT !.pc = "loop", !.i = 1]
    /\ UNCHANGED <<env, conf, attached, injected, _input_queue, _last_input_time,
                   _queue_lock, kb, fl, posted, flog, hist, nEvents>>

\* The handler's own arithmetic raises: GetWindowRect / GetClientRect on a
\* closed window, or a division by a zero source size.
MapRaises(kind, src, hwnd) ==
    \/ hwnd \notin open
    \/ SourceSize(kind, src)[1] = 0
    \/ SourceSize(kind, src)[2] = 0

\* The point a handler hands to send_mouse_event for the loop target hwnd.
MappedPoint(kind, rel, src, hwnd) ==
    IF kind = "click" THEN ClickPoint(rel, src, hwnd) ELSE MovePoint(rel, src, hwnd)

\* One iteration of "for hwnd in target_windows" (the global list, indexed
\* live), or the end of the handler: the loop is exhausted, or the outer
\* except caught an exception.
ms_loop ==
    /\ ms.pc = "loop"
    /\ IF ms.i <= Len(target_windows) /\ ~MapRaises(ms.kind, ms.src, target_windows[ms.i])
       THEN /\ posted' = posted \o send_mouse_event(
                             MappedPoint(ms.kind, ms.rel, ms.src, target_windows[ms.i]),
                             ms.msg, target_windows[ms.i])
            /\ ms' = [ms EXCEPT !.i = ms.i + 1]
       ELSE /\ posted' = <<>>
            /\ ms' = MsIdle
    /\ UNCHANGED <<env, conf, attached, injected, target_windows, _input_queue,
                   _last_input_time, _queue_lock, kb, fl, flog, hist, nEvents>>

\* ------------------------------------------------------------- environment
\* The idle loop polls every 10 ms, far below one tick: while a flush is due
\* and the loop is at its poll (or inside the lock), the clock does not pass
\* a whole tick.
Tick ==
    /\ now < MaxTime
    /\ ~(fl.pc = "poll" /\ FlushDue)
    /\ fl.pc # "drain"
    /\ now' = now + 1
    /\ UNCHANGED <<fg, open, conf, attached, injected, target_windows, _input_queue,
                   _last_input_time, _queue_lock, kb, ms, fl, posted, flog,
                   hist, nEvents>>

\* The user brings another window to the foreground.
FocusChange(h) ==
    /\ h \in open
    /\ h # fg
    /\ fg' = h
    /\ UNCHANGED <<now, open, conf, attached, injected, target_windows, _input_queue,
                   _last_input_time, _queue_lock, kb, ms, fl, posted, flog,
                   hist, nEvents>>

\* A target window is closed; its handle becomes invalid.
CloseWindow(h) ==
    /\ h \in open \cap Closable
    /\ open' = open \ {h}
    /\ fg' \in (IF fg = h THEN open \ {h} ELSE {fg})
    /\ UNCHANGED <<now, conf, attached, injected, target_windows, _input_queue,
                   _last_input_time, _queue_lock, kb, ms, fl, posted, flog,
                   hist, nEvents>>

\* The program as main() starts it.
Next ==
    \/ \E key \in Keys : on_press(key)
    \/ \E key \in ReleasedKeys : on_release(key)
    \/ hook_injected
    \/ kb_store_time
    \/ kb_append
    \/ fl_poll
    \/ fl_drain
    \/ fl_recheck
    \/ fl_enum
    \/ fl_switch
    \/ fl_replay
    \/ listener_move
    \/ \E pt \in Points, c \in Clicks : on_click(pt, c[1], c[2])
    \/ ms_enum
    \/ ms_loop
    \/ Tick
    \/ \E h \in Hwnds : FocusChange(h)
    \/ \E h \in Hwnds : CloseWindow(h)

Spec == Init /\ [][Next]_vars

\* The same program with on_move registered as the listener's move handler.
NextHandlers ==
    \/ Next
    \/ \E pt \in Points : on_move(pt)

SpecHandlers == Init /\ [][NextHandlers]_vars

\* The same handlers, with a source window that is zero wide or zero high.
InitZero ==
    /\ now = 0
    /\ fg = 1
    /\ open = Hwnds
    /\ SOURCE_TITLE = <<"r", "g", "1">>
    /\ srcSize \in {"w0", "h0"}
    /\ attached = {}
    /\ injected = <<>>
    /\ target_windows = <<>>
    /\ _input_queue = <<>>
    /\ _last_input_time = now
    /\ _queue_lock = FALSE
    /\ kb = KbIdle
    /\ ms = MsIdle
    /\ fl = FlIdle
    /\ posted = <<>>
    /\ flog = <<>>
    /\ hist = [any |-> FALSE, q |-> FALSE, b |-> FALSE]
    /\ nEvents = 0

SpecZero == InitZero /\ [][NextHandlers]_vars

\* The program with input that goes quiet before the clock's bound: the
\* listeners are handed events only while now < MaxTime.  The flush loop, the
\* clock and a callback that has started are fairly scheduled.
Quiet == now < MaxTime

NextQuiet ==
    \/ Quiet /\ \E key \in Keys : on_press(key)
    \/ Quiet /\ \E key \in ReleasedKeys : on_release(key)
    \/ Quiet /\ hook_injected
    \/ kb_store_time
    \/ kb_append
    \/ fl_poll
    \/ fl_drain
    \/ fl_recheck
    \/ fl_enum
    \/ fl_switch
    \/ fl_replay
    \/ Quiet /\ listener_move
    \/ Quiet /\ \E pt \in Points, c \in Clicks : on_click(pt, c[1], c[2])
    \/ ms_enum
    \/ ms_loop
    \/ Tick
    \/ \E h \in Hwnds : FocusChange(h)
    \/ \E h \in Hwnds : CloseWindow(h)

FlushLoop ==
    fl_poll \/ fl_drain \/ fl_recheck \/ fl_enum \/ fl_switch \/ fl_replay

\* The program started with the default SOURCE_TITLE and the source window
\* in the foreground.
InitFair ==
    /\ Init
    /\ fg = 1
    /\ SOURCE_TITLE = <<"r", "g", "1">>

SpecFair ==
    /\ InitFair
    /\ [][NextQuiet]_vars
    /\ WF_vars(FlushLoop)
    /\ WF_vars(Tick)
    /\ WF_vars(kb_store_time)
    /\ WF_vars(kb_append)

\* ================================================================== claims
\* The mouse handler is about to return: its loop is exhausted, or the next
\* iteration raises into the outer except.
MsReturning ==
    /\ ms.pc = "loop"
    /\ \/ ms.i > Len(target_windows)
       \/ MapRaises(ms.kind, ms.src, target_windows[ms.i])

\* The flush has processed every target of its list and is about to restore.
FlReturning == fl.pc = "switch" /\ fl.ti > Len(fl.tl)

PostsTo(h) == {j \in DOMAIN posted : posted[j].hwnd = h}

\* C1: a burst of accepted key events, each less than the debounce threshold
\* after the previous one, is drained by one flush and never split: an
\* accepted event that follows its predecessor by less than the threshold is
\* still on its way to the queue only while the predecessor is still queued,
\* never after the predecessor was drained without it.
C1_BurstNeverSplit ==
    (kb.pc \in {"store", "append"} /\ kb.gap = "lt") => _input_queue # <<>>

\* C2: a dispatch failure for one target never keeps the other targets from
\* the event: when a mouse handler returns, every open window of its target
\* list was posted the message, and a flush moves on from a target of its
\* list only when every event of the batch was injected there, or that very
\* injection had failed.
C2_FailureContained ==
    /\ MsReturning =>
         \A k \in DOMAIN target_windows :
             target_windows[k] \in open => PostsTo(target_windows[k]) # {}
    /\ (fl.pc = "switch" /\ fl.ti > 1) =>
         \A e \in DOMAIN fl.batch :
             \E j \in DOMAIN flog :
                 \/ flog[j] = <<"key", fl.tl[fl.ti - 1], KeyFlags(fl.batch[e][1]),
                                fl.batch[e][2]>>
                 \/ flog[j] = <<"failed", fl.tl[fl.ti - 1], fl.batch[e][1],
                                fl.batch[e][2]>>

\* C3: every mouse move and every left/right click observed while the source
\* is active is dispatched to the current targets from the capture callback,
\* before it returns: the step that handles a move leaves a move message
\* posted to every visible target, and a click handler returns only with its
\* message posted to every visible target.
C3_MouseDispatchedInCallback ==
    [][ /\ (listener_move /\ is_source_active) =>
               \A h \in Hwnds : enum_win(h) =>
                   \E j \in DOMAIN posted' :
                       posted'[j].hwnd = h /\ posted'[j].msg = WM_MOUSEMOVE
        /\ (ms.pc = "loop" /\ ms'.pc = "idle" /\ ms.kind = "click") =>
               \A h \in Hwnds : enum_win(h) =>
                   \E j \in DOMAIN posted :
                       posted[j].hwnd = h /\ posted[j].msg = ms.msg ]_vars

\* C4: for every forwarded mouse event and every target T of the refreshed
\* list, exactly one message is posted to T, carrying the point scaled for T:
\* no message carries a point computed for another target, no target gets a
\* second message, and a handler returns with one message per listed target.
C4_OneMessagePerTarget ==
    /\ \A j \in DOMAIN posted : posted[j].for = posted[j].hwnd
    /\ \A h \in Hwnds : Cardinality(PostsTo(h)) <= 1
    /\ (MsReturning /\ ms.i > Len(target_windows)) =>
           \A k \in DOMAIN target_windows :
               Cardinality(PostsTo(target_windows[k])) = 1

\* C5: a flush whose re-check finds a foreground title that does not match
\* the source rule (regular expression or substring fallback) is aborted: a
\* flush gets past the re-check only with a foreground window that matched.
C5_AbortWhenSourceLost ==
    fl.pc \in {"enum", "switch", "replay"} => SourceRuleMatches(fl.source_hwnd)

\* C6: in a flush that is not aborted the targets are processed one at a
\* time: the log of the flush is, target after target of its list, the switch
\* to the target followed by the whole batch in its original order, keydown
\* as key-down (flags 0) and keyup as key-up (KEYEVENTF_KEYUP), and the switch
\* to the next target only after the last event of this one.  (An event whose
\* injection raises is logged as failed, in its place.)
C6_TargetsInTurn ==
    LET n == Len(fl.batch)
        k == IF fl.pc = "replay" THEN fl.ti ELSE fl.ti - 1
    IN  IF fl.pc \in {"switch", "replay"} /\ k >= 1
        THEN /\ k <= Len(fl.tl)
             /\ flog[1] = <<"switch", fl.tl[k]>>
             /\ Len(flog) = IF fl.pc = "replay" THEN 1 ELSE n + 1
             /\ \A j \in 2 .. Len(flog) :
                    \/ flog[j] = <<"key", fl.tl[k],
                                   IF fl.batch[j - 1][1] = "keydown" THEN 0 ELSE 2,
                                   fl.batch[j - 1][2]>>
                    \/ flog[j] = <<"failed", fl.tl[k], fl.batch[j - 1][1],
                                   fl.batch[j - 1][2]>>
        ELSE flog = <<>>

\* C6 witness: a flush has replayed a keydown/keyup batch to two targets.
C6_Witness ==
    /\ FlReturning
    /\ fl.tl = <<2, 3>>
    /\ Len(fl.batch) = 2
    /\ fl.batch[1][1] = "keydown"
    /\ fl.batch[2][1] = "keyup"
    /\ open = Hwnds

\* C7: two bursts of accepted key events more than the debounce threshold
\* apart produce two flushes: no drained batch holds events of both bursts.
C7_BurstsFlushedApart == ~hist.b

\* C8: forwarding is gated on source focus: a key event is appended, and a
\* mouse message posted, only by a callback that found the foreground title
\* matching the source rule when it ran; an event captured while a non-source
\* window is in the foreground starts no callback work at all.
C8_GatedOnSource ==
    [][ /\ Len(_input_queue') > Len(_input_queue) => kb.gate
        /\ Len(posted') > Len(posted) => ms.gate
        /\ (nEvents' > nEvents /\ ~is_source_active) =>
               UNCHANGED <<kb, ms, _input_queue, _last_input_time, posted,
                           target_windows>> ]_vars

\* C8 witness: a key event is queued and a click has been posted while a
\* non-source window has since come to the foreground.
C8_Witness ==
    /\ _input_queue # <<>>
    /\ posted # <<>>
    /\ ~is_source_active

\* C9: for a move event the client point posted to a target is the
\* source-relative point scaled by target client size over source client
\* size, truncated; with source client 800 x 600 and target client 400 x 300
\* the source-relative point (400,300) is posted as (200,150).
C9_MoveScaled ==
    \A j \in DOMAIN posted :
        posted[j].msg = WM_MOUSEMOVE =>
            /\ posted[j].pt =
                 << TruncDiv(ms.rel[1] * GetClientRect(posted[j].hwnd)[3],
                             GetClientRect(ms.src)[3]),
                    TruncDiv(ms.rel[2] * GetClientRect(posted[j].hwnd)[4],
                             GetClientRect(ms.src)[4]) >>
            /\ (ms.rel = <<400, 300>> /\ posted[j].hwnd = 2) =>
                   posted[j].pt = <<200, 150>>

\* C10: when a flush that was not aborted has processed all its targets, the
\* last foreground switch it requests is to the source window that was in
\* the foreground when it began: the window it restores matches the source
\* rule and is no target.
C10_RestoresSource ==
    FlReturning =>
        /\ SourceRuleMatches(RestoreTarget)
        /\ ~TargetTestTable[RestoreTarget]

\* C11: when the source window is zero wide or zero high, the mouse event
\* being mapped is dropped: its handler posts nothing to any target, its
\* next step is the return to the idle listener (the exception is caught),
\* and that step changes nothing the later events depend on.
C11_SourceZero ==
    \/ Width(GetWindowRect(ms.src)) = 0
    \/ Height(GetWindowRect(ms.src)) = 0

C11_ZeroSizedSourceDropped ==
    [][ (ms.pc # "idle" /\ C11_SourceZero) =>
            /\ posted = <<>>
            /\ posted' = <<>>
            /\ (ms.pc = "loop" /\ ms' # ms) =>
                   /\ ms' = MsIdle
                   /\ UNCHANGED <<target_windows, _input_queue,
                                  _last_input_time, _queue_lock, kb, fl>> ]_vars

\* C11 witness: the handler of a second event, a click or a move on the
\* zero-sized source, has enumerated both targets and is about to map the
\* point for the first of them.
C11_Witness ==
    /\ ms.pc = "loop"
    /\ C11_SourceZero
    /\ target_windows = <<2, 3>>
    /\ ms.i = 1
    /\ nEvents = 2
    /\ posted = <<>>

\* C12: every access to the shared keyboard state is made inside the queue
\* lock: the queue and the timestamp change only in a step of a critical
\* section (the callback's append, the loop's drain), and while the flush
\* loop is inside the lock, having tested the debounce condition, no capture
\* callback is in the middle of updating the timestamp.
C12_KeyboardStateUnderLock ==
    [][ /\ _input_queue' # _input_queue => (kb.pc = "append" \/ fl.pc = "drain")
        /\ _last_input_time' # _last_input_time =>
               (kb.pc = "append" \/ fl.pc = "drain")
        /\ _queue_lock => kb.pc # "store" ]_vars

\* C13: the target list a dispatch iterates is the result of its own fresh
\* enumeration: it holds no handle twice, and every visible window with a
\* target title is in it (no window opens while the program runs), whatever
\* the other thread's refresh does meanwhile.
C13_Fresh(list) ==
    /\ \A i, j \in DOMAIN list : list[i] = list[j] => i = j
    /\ \A h \in Hwnds : enum_win(h) => \E i \in DOMAIN list : list[i] = h

C13_OwnFreshEnumeration ==
    /\ fl.pc \in {"switch", "replay"} => C13_Fresh(fl.tl)
    /\ ms.pc = "loop" => C13_Fresh(target_windows)

\* C14: attach and detach are paired on every exit path of a key injection:
\* between two targets of a flush, and whenever the loop is idle, no thread
\* attachment made by the program is in place.
C14_AttachDetachPaired ==
    fl.pc \in {"poll", "switch"} => attached = {}

\* C15: a key event synthesized by the flush loop is never accepted by a
\* keyboard capture callback, so it never reaches the pending batch.
C15_NoRecapture ==
    kb.pc \in {"store", "append"} => ~kb.syn

\* C16: every queued key event goes into exactly one batch: the queue
\* changes only by a callback appending its event at the end, outside the
\* loop's critical section, or by the drain, which takes the whole queue as
\* the batch and leaves it empty in the same step; a batch is taken only
\* after the previous one is finished, and changes only by being finished.
C16_Drain ==
    /\ fl.pc = "drain"
    /\ fl.batch = <<>>
    /\ fl'.batch = _input_queue
    /\ _input_queue' = <<>>

C16_DrainedExactlyOnce ==
    [][ /\ _input_queue' # _input_queue =>
               \/ /\ kb.pc = "append"
                  /\ ~_queue_lock
                  /\ _input_queue' = Append(_input_queue, kb.ev)
                  /\ fl' = fl
               \/ C16_Drain
        /\ fl'.batch # fl.batch => (C16_Drain \/ fl'.batch = <<>>)
        /\ (fl.pc = "drain" /\ fl' # fl) => C16_Drain ]_vars

\* C16 witness: a flush has drained its batch while an accepted event was
\* waiting for the lock; the event is still to be appended.
C16_Witness ==
    /\ fl.pc = "recheck"
    /\ fl.batch # <<>>
    /\ kb.pc = "append"
    /\ _input_queue = <<>>

\* C18: a key press or release that is dropped, because the source is not
\* active or because the key has no virtual-key mapping (a character the
\* layout has no key for, a named key outside SPECIAL_KEY_MAP), leaves the
\* pending batch and the timestamp unchanged and starts no callback work
\* that could change them later.
C18_HasMapping(key) ==
    \/ key \in Chars /\ VkKeyScan(key) # -1
    \/ key = "enter"

C18_DroppedKeyLeavesNoTrace ==
    [][ \A key \in Keys :
            ( /\ on_press(key) \/ on_release(key)
              /\ ~is_source_active \/ ~C18_HasMapping(key) ) =>
                UNCHANGED <<kb, _input_queue, _last_input_time>> ]_vars

\* C17: under fair scheduling of the flush loop, a non-empty pending batch
\* is eventually drained: once input has gone quiet the queue becomes empty.
C17_EventuallyDrained ==
    (_input_queue # <<>>) ~> (_input_queue = <<>>)

\* C17 witness: the loop has drained a non-empty batch and left the queue
\* empty, with no callback under way.
C17_Witness ==
    /\ fl.pc = "recheck"
    /\ fl.batch # <<>>
    /\ _input_queue = <<>>
    /\ kb.pc = "idle"

====
